---- MODULE Spec2Model ----
(***************************************************************************)
(* A model of the dialogue core of the travel assistant:                   *)
(*   backend/travel_assistant/core/conversation.py  (ConversationManager)  *)
(*   backend/travel_assistant/core/assistant.py     (TravelAssistant)      *)
(*   backend/travel_assistant/router/routes_assistant.py                   *)
(* Utterances are real strings; the regular expressions of the source are  *)
(* evaluated on them character by character.                               *)
(***************************************************************************)
EXTENDS Naturals, Sequences, FiniteSets, TLC

VARIABLES context, current_topic, history, conversation_history,
          consecutive_errors, call

vars == <<context, current_topic, history, conversation_history,
          consecutive_errors, call>>

-----------------------------------------------------------------------------
(* Bounds of the model.                                                    *)

\* phrases joined into one utterance handed to the pure functions
MaxPhrases == 2
\* merged turns kept in ConversationManager.history before a reset is needed
MaxTurns == 2

-----------------------------------------------------------------------------
(* Characters and strings (Python str).                                    *)

LowerAlpha == "abcdefghijklmnopqrstuvwxyz"
UpperAlpha == "ABCDEFGHIJKLMNOPQRSTUVWXYZ"
DigitChars == "0123456789"

Ch(s, i) == SubSeq(s, i, i)

CharsOf(s) == {Ch(s, i) : i \in 1..Len(s)}

LowerSet == CharsOf(LowerAlpha)
UpperSet == CharsOf(UpperAlpha)
DigitSet == CharsOf(DigitChars)
LetterSet == LowerSet \cup UpperSet
\* \w of the re module
WordSet == LetterSet \cup DigitSet \cup {"_"}
\* \s of the re module (the utterances hold no other white space)
SpaceSet == {" "}

LowerCh(c) ==
    IF c \in UpperSet
    THEN Ch(LowerAlpha, CHOOSE i \in 1..Len(UpperAlpha) : Ch(UpperAlpha, i) = c)
    ELSE c

RECURSIVE lower(_)
\* str.lower()
lower(s) == IF s = "" THEN "" ELSE LowerCh(Head(s)) \o lower(Tail(s))

\* the character class of position p of s; positions outside s hold nothing
InClass(s, p, class) == p >= 1 /\ p <= Len(s) /\ Ch(s, p) \in class

\* \b between positions p-1 and p
Boundary(s, p) == InClass(s, p - 1, WordSet) # InClass(s, p, WordSet)

\* the literal k stands in s at position i (the first character is compared
\* first: most positions fail there)
LitAt(s, k, i) ==
    /\ i >= 1
    /\ i + Len(k) - 1 <= Len(s)
    /\ SubSeq(s, i, i) = SubSeq(k, 1, 1)
    /\ SubSeq(s, i, i + Len(k) - 1) = k

\* Python's  k in s  (k is never empty here)
In(k, s) == \E i \in 1..Len(s) : LitAt(s, k, i)

\* any(k in s for k in ks)
AnyIn(ks, s) == \E k \in ks : In(k, s)

(* A pattern  a1.*a2.* ... an  is a sequence of atoms; an atom is a set of  *)
(* alternative literals, with \b before and after it or without.            *)
W(alts) == [alts |-> alts, b |-> TRUE]
L(alts) == [alts |-> alts, b |-> FALSE]

AtomAt(s, atom, a, i) ==
    /\ LitAt(s, a, i)
    /\ atom.b => (Boundary(s, i) /\ Boundary(s, i + Len(a)))

RECURSIVE SearchFrom(_, _, _, _)
SearchFrom(s, atoms, k, from) ==
    \E i \in from..Len(s) : \E a \in atoms[k].alts :
        /\ AtomAt(s, atoms[k], a, i)
        /\ (k = Len(atoms) \/ SearchFrom(s, atoms, k + 1, i + Len(a)))

\* re.search(p, s) is not None
Search(p, s) == SearchFrom(s, p, 1, 1)

\* any(re.search(p, s) for p in ps)
AnySearch(ps, s) == \E n \in 1..Len(ps) : Search(ps[n], s)

-----------------------------------------------------------------------------
(* QueryType and classify_query.                                           *)

QueryTypeValues ==
    {"destination", "packing", "attractions", "accommodation", "weather",
     "best_time", "budget", "safety", "visa", "itinerary", "general"}

itinerary_stay_cues == {"staying for", "i am staying", "for  "}
itinerary_time_cues == {"in ", "from now", "days", "weeks"}
itinerary_lodging_cues == {"hotel", "stay at a"}

weather_cues == {"weather", "climate", "temperature", "season"}

visa_cues ==
    {"visa", "e-visa", "evisa", "visa on arrival", "voa", "entry requirement",
     "entry requirements", "passport requirement", "immigration", "border",
     "permission to stay"}

hotel_patterns ==
    << <<W({"hotel", "hotels"})>>, <<W({"hostel", "hostels"})>>,
       <<W({"guesthouse", "guesthouses"})>>,
       <<W({"accommodation", "lodging"})>>, <<W({"where to stay"})>>,
       <<W({"place to sleep", "place to stay"})>>, <<W({"inn"})>>,
       <<W({"motel", "motels"})>>, <<W({"bnb"})>>,
       <<W({"bed and breakfast"})>>, <<W({"boutique hotel"})>> >>

destination_patterns ==
    << <<L({"where"}), L({"should", "to"}), L({"go", "travel"})>>,
       <<L({"recommend"}), L({"destination"})>>,
       <<L({"place"}), L({"visit"})>>,
       <<L({"vacation"}), L({"ideas"})>>,
       <<L({"trip"}), L({"suggestions"})>> >>

packing_patterns ==
    << <<W({"pack"}), W({"what"})>>, <<W({"what"}), W({"pack"})>>,
       <<W({"packing list"})>>, <<W({"bring"}), W({"trip"})>>,
       <<W({"what"}), W({"wear"})>>, <<W({"essentials"}), W({"bring"})>> >>

attractions_patterns ==
    << <<W({"things"}), W({"do"})>>, <<W({"attraction", "attractions"})>>,
       <<W({"sightseeing"})>>, <<W({"places"}), W({"see"})>>,
       <<W({"activities"})>>, <<W({"what"}), W({"do"}), W({"in"})>> >>

budget_cues ==
    {"budget", "how much", "cost", "spend", "price per day", "per day", "per week"}

best_time_cues ==
    {"best time", "when to visit", "season to go", "surf", "surfing", "waves", "swell"}

safety_cues ==
    {"safety", "safe to travel", "is it safe", "solo travel", "solo female",
     "women safety", "harassment", "scam", "pickpocket", "crime", "emergency"}

\* the composite check without its temporal class
ItineraryCue_no_time(text) ==
    /\ AnyIn(itinerary_stay_cues, text)
    /\ AnyIn(itinerary_lodging_cues, text)

ItineraryCue(text) ==
    /\ AnyIn(itinerary_stay_cues, text)
    /\ AnyIn(itinerary_time_cues, text)
    /\ AnyIn(itinerary_lodging_cues, text)

\* the cue set of a category, on the lower-cased text
Cue(category, text) ==
    CASE category = "itinerary" -> ItineraryCue(text)
      [] category = "weather" -> AnyIn(weather_cues, text)
      [] category = "visa" -> AnyIn(visa_cues, text)
      [] category = "accommodation" -> AnySearch(hotel_patterns, text)
      [] category = "destination" -> AnySearch(destination_patterns, text)
      [] category = "packing" -> AnySearch(packing_patterns, text)
      [] category = "attractions" -> AnySearch(attractions_patterns, text)
      [] category = "budget" -> AnyIn(budget_cues, text)
      [] category = "best_time" -> AnyIn(best_time_cues, text)
      [] category = "safety" -> AnyIn(safety_cues, text)

\* classify_query with the destination patterns tried before the hotel patterns
classify_query_destination_first(user_input) ==
    LET text == lower(user_input) IN
    IF Cue("itinerary", text) THEN "itinerary"
    ELSE IF Cue("weather", text) THEN "weather"
    ELSE IF Cue("visa", text) THEN "visa"
    ELSE IF Cue("destination", text) THEN "destination"
    ELSE IF Cue("accommodation", text) THEN "accommodation"
    ELSE IF Cue("packing", text) THEN "packing"
    ELSE IF Cue("attractions", text) THEN "attractions"
    ELSE IF Cue("budget", text) THEN "budget"
    ELSE IF Cue("best_time", text) THEN "best_time"
    ELSE IF Cue("safety", text) THEN "safety"
    ELSE "general"

\* classify_query without the final return: Python's None when nothing matches
classify_query_no_default(user_input) ==
    LET text == lower(user_input) IN
    IF Cue("itinerary", text) THEN "itinerary"
    ELSE IF Cue("weather", text) THEN "weather"
    ELSE IF Cue("visa", text) THEN "visa"
    ELSE IF Cue("accommodation", text) THEN "accommodation"
    ELSE IF Cue("destination", text) THEN "destination"
    ELSE IF Cue("packing", text) THEN "packing"
    ELSE IF Cue("attractions", text) THEN "attractions"
    ELSE IF Cue("budget", text) THEN "budget"
    ELSE IF Cue("best_time", text) THEN "best_time"
    ELSE IF Cue("safety", text) THEN "safety"
    ELSE "<None>"

\* classify_query with the best-time check moved above the weather check
classify_query_best_time_first(user_input) ==
    LET text == lower(user_input) IN
    IF Cue("itinerary", text) THEN "itinerary"
    ELSE IF Cue("best_time", text) THEN "best_time"
    ELSE IF Cue("weather", text) THEN "weather"
    ELSE IF Cue("visa", text) THEN "visa"
    ELSE IF Cue("accommodation", text) THEN "accommodation"
    ELSE IF Cue("destination", text) THEN "destination"
    ELSE IF Cue("packing", text) THEN "packing"
    ELSE IF Cue("attractions", text) THEN "attractions"
    ELSE IF Cue("budget", text) THEN "budget"
    ELSE IF Cue("safety", text) THEN "safety"
    ELSE "general"

classify_query(user_input) ==
    LET text == lower(user_input) IN
    IF Cue("itinerary", text) THEN "itinerary"
    ELSE IF Cue("weather", text) THEN "weather"
    ELSE IF Cue("visa", text) THEN "visa"
    ELSE IF Cue("accommodation", text) THEN "accommodation"
    ELSE IF Cue("destination", text) THEN "destination"
    ELSE IF Cue("packing", text) THEN "packing"
    ELSE IF Cue("attractions", text) THEN "attractions"
    ELSE IF Cue("budget", text) THEN "budget"
    ELSE IF Cue("best_time", text) THEN "best_time"
    ELSE IF Cue("safety", text) THEN "safety"
    ELSE "general"

-----------------------------------------------------------------------------
(* Python values.  None is a value no extraction produces; a str slot      *)
(* holds None or a string, the interests slot holds a list.                *)

None == "<None>"

ListKeys == {"interests"}

\* bool(v) for the value v of key k
Truthy(k, v) == IF k \in ListKeys THEN v # <<>> ELSE v \notin {None, ""}

\* d.get(k) on a dict d (a function on the keys that are present)
Get(d, k) ==
    IF k \in DOMAIN d THEN d[k] ELSE IF k \in ListKeys THEN <<>> ELSE None

\* d[k] = v
Put(d, k, v) == [x \in DOMAIN d \cup {k} |-> IF x = k THEN v ELSE d[x]]

EmptyDict == [x \in {} |-> None]

-----------------------------------------------------------------------------
(* Scanning helpers for the regular expressions of extract_entities.       *)

\* the end (exclusive) of the longest run of class characters from i on
RunEnd(s, i, class) ==
    CHOOSE j \in i..(Len(s) + 1) :
        /\ \A k \in i..(j - 1) : InClass(s, k, class)
        /\ ~InClass(s, j, class)

\* the first alternative of the sequence alts that stands in s at i, or 0
FirstAltAt(s, alts, i) ==
    IF \E n \in 1..Len(alts) : LitAt(s, alts[n], i)
    THEN CHOOSE n \in 1..Len(alts) :
            /\ LitAt(s, alts[n], i)
            /\ \A m \in 1..(n - 1) : ~LitAt(s, alts[m], i)
    ELSE 0

\* the least member of a non-empty set of positions
Least(S) == CHOOSE x \in S : \A y \in S : x <= y

RECURSIVE Replace(_, _, _)
\* str.replace(a, b) for single characters
Replace(s, a, b) ==
    IF s = "" THEN ""
    ELSE (IF Head(s) = a THEN b ELSE Head(s)) \o Replace(Tail(s), a, b)

-----------------------------------------------------------------------------
(* _strip_leading_question_words                                           *)

_QUESTION_WORDS == {"which", "where", "what", "when", "how", "who", "whom", "whose"}

RECURSIVE Tokens(_)
\* [t for t in re.split(r"\s+", text) if t]
Tokens(s) ==
    LET b == RunEnd(s, 1, SpaceSet)
        e == RunEnd(s, b, {c \in CharsOf(s) : c \notin SpaceSet})
    IN  IF b > Len(s) THEN <<>>
        ELSE <<SubSeq(s, b, e - 1)>> \o Tokens(SubSeq(s, e, Len(s)))

RECURSIVE Strip(_, _)
\* str.strip(chars)
Strip(s, chars) ==
    IF s = "" THEN ""
    ELSE IF Head(s) \in chars THEN Strip(Tail(s), chars)
    ELSE IF Ch(s, Len(s)) \in chars THEN Strip(SubSeq(s, 1, Len(s) - 1), chars)
    ELSE s

RECURSIVE Join(_)
\* " ".join(tokens)
Join(tokens) ==
    IF tokens = <<>> THEN ""
    ELSE IF Len(tokens) = 1 THEN tokens[1]
    ELSE tokens[1] \o " " \o Join(Tail(tokens))

RECURSIVE DropQuestionWords(_)
DropQuestionWords(tokens) ==
    IF tokens # <<>> /\ Strip(lower(tokens[1]), {",", ".", "?"}) \in _QUESTION_WORDS
    THEN DropQuestionWords(Tail(tokens))
    ELSE tokens

_strip_leading_question_words(text) == Join(DropQuestionWords(Tokens(text)))

-----------------------------------------------------------------------------
\* Duration:  (\d+)[\s-]*(days?|weeks?|months?)  with re.I, then the
\* _WORD_DURATION table.

duration_units == <<"day", "week", "month">>

\* the end (exclusive) of a match of the duration pattern at i, or 0
DurationEnd(s, i) ==
    LET sl == lower(s)
        u == RunEnd(s, RunEnd(s, i, DigitSet), SpaceSet \cup {"-"})
        n == FirstAltAt(sl, duration_units, u)
        e == u + Len(duration_units[n])
    IN  IF ~InClass(s, i, DigitSet) \/ n = 0 THEN 0
        ELSE IF LitAt(sl, "s", e) THEN e + 1 ELSE e

_WORD_DURATION_keys == <<"weekend", "couple of days", "few days", "fortnight">>
\* (the en dash of the source's "2-3 days" and "3-4 days" is written "-")
_WORD_DURATION_norm == <<"2 days (weekend)", "2-3 days", "3-4 days", "2 weeks">>

ExtractDuration(cleaned) ==
    LET starts == {i \in 1..Len(cleaned) : DurationEnd(cleaned, i) # 0}
        words == {n \in 1..Len(_WORD_DURATION_keys) :
                    Search(<<W({_WORD_DURATION_keys[n]})>>, lower(cleaned))}
    IN  IF starts # {}
        THEN Replace(SubSeq(cleaned, Least(starts),
                            DurationEnd(cleaned, Least(starts)) - 1), "-", " ")
        ELSE IF words # {} THEN _WORD_DURATION_norm[Least(words)]
        ELSE None

-----------------------------------------------------------------------------
\* Budget, with re.I:
\*   (?:(?:budget|up to|around)\s*)?(\$|EUR-sign|GBP-sign)?\s*(\d+(?:,\d{3})*|\d+)
\*   (?:\s*(k|thousand))?\s*(usd|dollars|eur|euros|gbp|pounds|per night|/night|a night)?

budget_leadins == <<"budget", "up to", "around">>
\* the utterances are ASCII: of the three currency symbols only $ occurs
budget_symbols == {"$"}
budget_multipliers == <<"k", "thousand">>
budget_units ==
    <<"usd", "dollars", "eur", "euros", "gbp", "pounds", "per night", "/night", "a night">>

\* where the number starts when  (\$|€|£)?\s*\d  stands at p, or 0
BudgetNumberAt(s, p) ==
    LET d == RunEnd(s, IF InClass(s, p, budget_symbols) THEN p + 1 ELSE p, SpaceSet)
    IN  IF InClass(s, d, DigitSet) THEN d ELSE 0

\* where the number of a match that starts at i starts, or 0
BudgetNumberFrom(s, i) ==
    LET n == FirstAltAt(lower(s), budget_leadins, i)
    IN  IF n # 0 /\ BudgetNumberAt(s, RunEnd(s, i + Len(budget_leadins[n]), SpaceSet)) # 0
        THEN BudgetNumberAt(s, RunEnd(s, i + Len(budget_leadins[n]), SpaceSet))
        ELSE BudgetNumberAt(s, i)

RECURSIVE ThousandsEnd(_, _)
\* (?:,\d{3})*  from e on
ThousandsEnd(s, e) ==
    IF LitAt(s, ",", e) /\ \A k \in (e + 1)..(e + 3) : InClass(s, k, DigitSet)
    THEN ThousandsEnd(s, e + 4)
    ELSE e

\* the end (exclusive) of the match whose number starts at d
BudgetEnd(s, d) ==
    LET sl == lower(s)
        e == ThousandsEnd(s, RunEnd(s, d, DigitSet))
        f == RunEnd(s, e, SpaceSet)
        m == FirstAltAt(sl, budget_multipliers, f)
        g == IF m = 0 THEN e ELSE f + Len(budget_multipliers[m])
        h == RunEnd(s, g, SpaceSet)
        u == FirstAltAt(sl, budget_units, h)
    IN  IF u = 0 THEN h ELSE h + Len(budget_units[u])

\* the budget search accepting a number only with a money cue (a lead-in, a
\* currency symbol, a multiplier or a unit)
ExtractBudget_money_cue(cleaned) ==
    LET starts == {i \in 1..Len(cleaned) : BudgetNumberFrom(cleaned, i) # 0}
        found == SubSeq(cleaned, Least(starts),
                        BudgetEnd(cleaned, BudgetNumberFrom(cleaned, Least(starts))) - 1)
    IN  IF starts = {} THEN None
        ELSE IF \A i \in 1..Len(found) : Ch(found, i) \in DigitSet \cup SpaceSet \cup {","}
        THEN None
        ELSE found

ExtractBudget(cleaned) ==
    LET starts == {i \in 1..Len(cleaned) : BudgetNumberFrom(cleaned, i) # 0}
    IN  IF starts = {} THEN None
        ELSE SubSeq(cleaned, Least(starts),
                    BudgetEnd(cleaned, BudgetNumberFrom(cleaned, Least(starts))) - 1)

-----------------------------------------------------------------------------
(* Interests and accommodation type.                                       *)

interests ==
    <<"beach", "mountain", "city", "culture", "adventure", "food", "shopping",
      "nature", "museum", "nightlife", "family", "romantic", "dinner", "formal",
      "hiking">>

ExtractInterests(cleaned) ==
    LET found(w) == Search(<<W({w})>>, lower(cleaned))
    IN  SelectSeq(interests, found)

acc_types ==
    <<"hotel", "hostel", "apartment", "boutique", "guesthouse", "bnb", "motel", "resort">>

ExtractAccommodationType(cleaned) ==
    LET hits == {n \in 1..Len(acc_types) :
                    Search(<<W({acc_types[n], acc_types[n] \o "s"})>>, lower(cleaned))}
    IN  IF hits = {} THEN None ELSE acc_types[Least(hits)]

-----------------------------------------------------------------------------
(* Destination:  _CITY_HINT, else the last _PROPER_NOUN.                   *)

\* [A-Z][a-zA-Z]{2,}  stands at i
CapWordAt(s, i) ==
    /\ InClass(s, i, UpperSet)
    /\ RunEnd(s, i + 1, LetterSet) >= i + 3

RECURSIVE CapPhraseEnd(_, _)
\* the end (exclusive) of  [A-Z][a-zA-Z]{2,}(?:[\s\-][A-Z][a-zA-Z]{2,})*  at i, greedy
CapPhraseEnd(s, i) ==
    LET e == RunEnd(s, i + 1, LetterSet)
    IN  IF InClass(s, e, SpaceSet \cup {"-"}) /\ CapWordAt(s, e + 1)
        THEN CapPhraseEnd(s, e + 1)
        ELSE e

city_hint_prepositions == {"in", "to", "for", "at"}

\* where the phrase of a _CITY_HINT match that starts at i starts, or 0
CityHintAt(s, i) ==
    LET ps == {p \in city_hint_prepositions :
                  /\ Boundary(s, i)
                  /\ LitAt(s, p, i)
                  /\ InClass(s, i + Len(p), SpaceSet)
                  /\ CapWordAt(s, RunEnd(s, i + Len(p), SpaceSet))}
    IN  IF ps = {} THEN 0
        ELSE RunEnd(s, i + Len(CHOOSE p \in ps : TRUE), SpaceSet)

RECURSIVE LastGroupStart(_, _)
\* where the last word of the greedy phrase at i starts
LastGroupStart(s, i) ==
    LET e == RunEnd(s, i + 1, LetterSet)
    IN  IF InClass(s, e, SpaceSet \cup {"-"}) /\ CapWordAt(s, e + 1)
        THEN LastGroupStart(s, e + 1)
        ELSE i

\* the end (exclusive) of a _PROPER_NOUN match at i, or 0: the greedy phrase
\* if \b follows it, else the phrase without its last word
ProperNounEnd(s, i) ==
    IF ~(Boundary(s, i) /\ CapWordAt(s, i)) THEN 0
    ELSE IF Boundary(s, CapPhraseEnd(s, i)) THEN CapPhraseEnd(s, i)
    ELSE IF LastGroupStart(s, i) # i THEN LastGroupStart(s, i) - 1
    ELSE 0

RECURSIVE FindAllProper(_, _)
\* re.findall(_PROPER_NOUN, s) from position pos on
FindAllProper(s, pos) ==
    LET starts == {i \in pos..Len(s) : ProperNounEnd(s, i) # 0}
        i == Least(starts)
    IN  IF starts = {} THEN <<>>
        ELSE <<SubSeq(s, i, ProperNounEnd(s, i) - 1)>>
             \o FindAllProper(s, ProperNounEnd(s, i))

\* the destination search with the first proper noun as its fallback
ExtractDestination_first_noun(cleaned) ==
    LET hints == {i \in 1..Len(cleaned) : CityHintAt(cleaned, i) # 0}
        c == CityHintAt(cleaned, Least(hints))
        tokens == FindAllProper(cleaned, 1)
    IN  IF hints # {} THEN SubSeq(cleaned, c, CapPhraseEnd(cleaned, c) - 1)
        ELSE IF tokens # <<>> THEN tokens[1]
        ELSE None

ExtractDestination(cleaned) ==
    LET hints == {i \in 1..Len(cleaned) : CityHintAt(cleaned, i) # 0}
        c == CityHintAt(cleaned, Least(hints))
        tokens == FindAllProper(cleaned, 1)
    IN  IF hints # {} THEN SubSeq(cleaned, c, CapPhraseEnd(cleaned, c) - 1)
        ELSE IF tokens # <<>> THEN tokens[Len(tokens)]
        ELSE None

-----------------------------------------------------------------------------
(* Citizenship (on the raw input) and purpose.                             *)

\* \b([A-Z][a-zA-Z]+)\s+passport\b  at i: the end (exclusive) of group 1, or 0
PassportAt(s, i) ==
    LET e == RunEnd(s, i + 1, LetterSet)
        p == RunEnd(s, e, SpaceSet)
    IN  IF /\ Boundary(s, i)
           /\ InClass(s, i, UpperSet)
           /\ e > i + 1
           /\ InClass(s, e, SpaceSet)
           /\ LitAt(s, "passport", p)
           /\ Boundary(s, p + Len("passport"))
        THEN e ELSE 0

citizen_leadins == <<"i am", "i'm", "im">>
citizen_nouns == <<"citizen", "national">>

\* \b(i am|i'm|im)\s+a\s+([A-Z][a-zA-Z]+)\s+(citizen|national)\b  with re.I
\* at i: where group 2 starts, or 0
CitizenAt(s, i) ==
    LET sl == lower(s)
        n == FirstAltAt(sl, citizen_leadins, i)
        a == RunEnd(s, i + Len(citizen_leadins[n]), SpaceSet)
        c == RunEnd(s, a + 1, SpaceSet)
        e == RunEnd(s, c, LetterSet)
        k == RunEnd(s, e, SpaceSet)
        m == FirstAltAt(sl, citizen_nouns, k)
    IN  IF /\ Boundary(s, i)
           /\ n # 0
           /\ a > i + Len(citizen_leadins[n])
           /\ LitAt(sl, "a", a)
           /\ c > a + 1
           /\ e >= c + 2
           /\ k > e
           /\ m # 0
           /\ Boundary(s, k + Len(citizen_nouns[m]))
        THEN c ELSE 0

ExtractCitizenship(user_input) ==
    LET ps == {i \in 1..Len(user_input) : PassportAt(user_input, i) # 0}
        cs == {i \in 1..Len(user_input) : CitizenAt(user_input, i) # 0}
        c == CitizenAt(user_input, Least(cs))
    IN  IF ps # {}
        THEN SubSeq(user_input, Least(ps), PassportAt(user_input, Least(ps)) - 1)
        ELSE IF cs # {}
        THEN SubSeq(user_input, c, RunEnd(user_input, c, LetterSet) - 1)
        ELSE None

ExtractPurpose(cleaned) ==
    LET t == lower(cleaned) IN
    IF AnyIn({"tourism", "vacation", "holiday", "leisure"}, t) THEN "tourism"
    ELSE IF AnyIn({"business", "meeting", "conference"}, t) THEN "business"
    ELSE IF AnyIn({"study", "student"}, t) THEN "study"
    ELSE IF AnyIn({"work", "job", "employment"}, t) THEN "work"
    ELSE None

-----------------------------------------------------------------------------
(* extract_entities                                                        *)

EntityKeys ==
    {"destination", "duration", "budget", "interests", "travel_dates",
     "accommodation_type", "citizenship", "purpose"}

\* the keys refilled from the context when the utterance gives no value
ReuseKeys == {"destination", "duration", "budget", "citizenship", "purpose"}

\* what the utterance alone produces (conversation.py lines 137-219)
UtteranceEntities(user_input) ==
    LET cleaned == _strip_leading_question_words(user_input)
    IN  [destination |-> ExtractDestination(cleaned),
         duration |-> ExtractDuration(cleaned),
         budget |-> ExtractBudget(cleaned),
         interests |-> ExtractInterests(cleaned),
         travel_dates |-> None,
         accommodation_type |-> ExtractAccommodationType(cleaned),
         citizenship |-> ExtractCitizenship(user_input),
         purpose |-> ExtractPurpose(cleaned)]

\* the reuse loops with the test on the utterance's value left out: a value
\* of the context replaces what the utterance gave
ReuseContext_context_first(entities, ctx) ==
    [k \in EntityKeys |->
        IF /\ k \in ReuseKeys \cup {"interests"}
           /\ Truthy(k, Get(ctx, k))
        THEN ctx[k]
        ELSE entities[k]]

\* the reuse loops without the destination
ReuseContext_skip_destination(entities, ctx) ==
    [k \in EntityKeys |->
        IF /\ k \in (ReuseKeys \ {"destination"}) \cup {"interests"}
           /\ ~Truthy(k, entities[k])
           /\ Truthy(k, Get(ctx, k))
        THEN ctx[k]
        ELSE entities[k]]

\* the reuse loops with the interests of the context added to the utterance's
ReuseContext_merge_interests(entities, ctx) ==
    [k \in EntityKeys |->
        IF k = "interests"
        THEN entities[k] \o SelectSeq(Get(ctx, k), LAMBDA w : \A i \in 1..Len(entities[k]) : entities[k][i] # w)
        ELSE IF /\ k \in ReuseKeys
                /\ ~Truthy(k, entities[k])
                /\ Truthy(k, Get(ctx, k))
        THEN ctx[k]
        ELSE entities[k]]

\* the "reuse context if missing" loops (conversation.py lines 221-228)
ReuseContext(entities, ctx) ==
    [k \in EntityKeys |->
        IF /\ k \in ReuseKeys \cup {"interests"}
           /\ ~Truthy(k, entities[k])
           /\ Truthy(k, Get(ctx, k))
        THEN ctx[k]
        ELSE entities[k]]

extract_entities(user_input, ctx) ==
    ReuseContext(UtteranceEntities(user_input), ctx)

-----------------------------------------------------------------------------
(* The inputs.                                                             *)

Phrases ==
    {"where should I go,", "any hostel recs?", "What should I pack?",
     "things to do", "in Paris", "Rome", "for 5 days",
     "I am staying at a hotel", "best season to go",
     "visa with Indian passport", "budget $2000 usd", "is it safe",
     "best time to surf", "beach holiday", "to Milan"}

RECURSIVE UtterancesOf(_)
\* the utterances of at most k phrases
UtterancesOf(k) ==
    IF k = 0 THEN {""}
    ELSE UtterancesOf(k - 1)
         \cup {IF u = "" THEN p ELSE u \o " " \o p : u \in UtterancesOf(k - 1), p \in Phrases}

\* the texts handed to classify_query
Utterances == UtterancesOf(MaxPhrases)

\* the texts of the turns of a session
SessionTexts ==
    {"where should I go,", "any hostel recs?", "What should I pack?",
     "things to do", "in Paris", "to Milan", "for 5 days", "beach holiday",
     "budget $2000 usd", "visa with Indian passport",
     "where should I go, any hostel recs?", "city museum tour",
     "Tokyo vs London which is better", "From Rome to Milan via Zurich"}

\* the texts handed to extract_entities
ExtractTexts == UtterancesOf(1) \cup SessionTexts

\* the entity sets handed to needs_clarification and update_context
EntityInputs ==
    {[destination |-> d, duration |-> u, budget |-> None, interests |-> i,
      travel_dates |-> None, accommodation_type |-> None, citizenship |-> None,
      purpose |-> None] :
        d \in {None, "", "Rome", "Milan"}, u \in {None, "5 days"},
        i \in {<<>>, <<"beach">>}}

\* the turns handed to update_context
UpdateTexts == {"any hostel recs?"}
UpdateTypes == {"accommodation", "packing"}


-----------------------------------------------------------------------------
(* classify_query and the utterance part of extract_entities depend on the *)
(* text alone: they are tabulated once over the texts of the model, and    *)
(* the callers below read the tables.                                      *)

classify_query_table == [t \in Utterances \cup ExtractTexts |-> classify_query(t)]

UtteranceEntities_table == [t \in ExtractTexts |-> UtteranceEntities(t)]

\* self.conversation_manager.classify_query(user_input)
Classify(user_input) ==
    classify_query_table[user_input]

\* self.conversation_manager.extract_entities(user_input), on the context ctx
Extract(user_input, ctx) ==
    ReuseContext(UtteranceEntities_table[user_input], ctx)

-----------------------------------------------------------------------------
(* The session state of a ConversationManager and its methods.             *)

\* ConversationManager.__init__
NewSession == [context |-> EmptyDict, current_topic |-> None, history |-> <<>>]

RECURSIVE StoreEntities_unconditional(_, _, _)
\* the entity loop without "if v": an empty value overwrites the slot
StoreEntities_unconditional(ctx, entities, keys) ==
    IF keys = {} THEN ctx
    ELSE LET k == CHOOSE x \in keys : TRUE
         IN  StoreEntities_unconditional(Put(ctx, k, entities[k]), entities, keys \ {k})

RECURSIVE StoreEntities(_, _, _)
\* for k, v in entities.items(): if v: self.context[k] = v
StoreEntities(ctx, entities, keys) ==
    IF keys = {} THEN ctx
    ELSE LET k == CHOOSE x \in keys : TRUE
         IN  StoreEntities(IF Truthy(k, entities[k]) THEN Put(ctx, k, entities[k]) ELSE ctx,
                           entities, keys \ {k})

\* update_context that records the previous topic after it has set the new one
update_context_topic_first(st, user_input, query_type, entities) ==
    LET c1 == Put(st.context, "current_topic", query_type)
        c2 == Put(c1, "previous_topic", Get(c1, "current_topic"))
        c3 == StoreEntities(c2, entities, DOMAIN entities)
        c4 == IF query_type = "accommodation"
              THEN Put(Put(c3, "accommodation_intent", TRUE),
                       "last_accommodation_query", user_input)
              ELSE c3
    IN  [context |-> c4,
         current_topic |-> query_type,
         history |-> Append(st.history,
                            [query |-> user_input, type |-> query_type,
                             entities |-> entities])]

\* update_context whose accommodation flag follows the intent of each turn
update_context_flag_per_turn(st, user_input, query_type, entities) ==
    LET prev == Get(st.context, "current_topic")
        c1 == IF Truthy("current_topic", prev)
              THEN Put(st.context, "previous_topic", prev) ELSE st.context
        c2 == Put(c1, "current_topic", query_type)
        c3 == StoreEntities(c2, entities, DOMAIN entities)
        c4 == IF query_type = "accommodation"
              THEN Put(Put(c3, "accommodation_intent", TRUE),
                       "last_accommodation_query", user_input)
              ELSE Put(c3, "accommodation_intent", FALSE)
    IN  [context |-> c4,
         current_topic |-> query_type,
         history |-> Append(st.history,
                            [query |-> user_input, type |-> query_type,
                             entities |-> entities])]

\* update_context that keeps only the latest turn at the end of the history
update_context_replace_last(st, user_input, query_type, entities) ==
    LET prev == Get(st.context, "current_topic")
        c1 == IF Truthy("current_topic", prev)
              THEN Put(st.context, "previous_topic", prev) ELSE st.context
        c2 == Put(c1, "current_topic", query_type)
        c3 == StoreEntities(c2, entities, DOMAIN entities)
        c4 == IF query_type = "accommodation"
              THEN Put(Put(c3, "accommodation_intent", TRUE),
                       "last_accommodation_query", user_input)
              ELSE c3
        entry == [query |-> user_input, type |-> query_type, entities |-> entities]
    IN  [context |-> c4,
         current_topic |-> query_type,
         history |-> IF st.history = <<>> THEN <<entry>>
                     ELSE SubSeq(st.history, 1, Len(st.history) - 1) \o <<entry, entry>>]

update_context(st, user_input, query_type, entities) ==
    LET prev == Get(st.context, "current_topic")
        c1 == IF Truthy("current_topic", prev)
              THEN Put(st.context, "previous_topic", prev) ELSE st.context
        c2 == Put(c1, "current_topic", query_type)
        c3 == StoreEntities(c2, entities, DOMAIN entities)
        c4 == IF query_type = "accommodation"
              THEN Put(Put(c3, "accommodation_intent", TRUE),
                       "last_accommodation_query", user_input)
              ELSE c3
    IN  [context |-> c4,
         current_topic |-> query_type,
         history |-> Append(st.history,
                            [query |-> user_input, type |-> query_type,
                             entities |-> entities])]

\* reset that forgets to clear the turn history
reset_keep_history(st) ==
    [context |-> EmptyDict, current_topic |-> None, history |-> st.history]

reset(st) == [context |-> EmptyDict, current_topic |-> None, history |-> <<>>]

-----------------------------------------------------------------------------
(* TravelAssistant                                                         *)

max_consecutive_errors == 2

\* needs_clarification with the packing rule asking for the duration as well
needs_clarification_packing_duration(query_type, entities) ==
    IF /\ query_type = "destination"
       /\ ~Truthy("interests", entities.interests)
       /\ ~Truthy("destination", entities.destination)
    THEN TRUE
    ELSE IF /\ query_type = "packing"
            /\ \/ ~Truthy("destination", entities.destination)
               \/ ~Truthy("duration", entities.duration)
    THEN TRUE
    ELSE IF query_type = "attractions" /\ ~Truthy("destination", entities.destination)
    THEN TRUE
    ELSE FALSE

\* needs_clarification with a rule for accommodation without a destination
needs_clarification_accommodation(query_type, entities) ==
    IF /\ query_type = "destination"
       /\ ~Truthy("interests", entities.interests)
       /\ ~Truthy("destination", entities.destination)
    THEN TRUE
    ELSE IF query_type = "packing" /\ ~Truthy("destination", entities.destination)
    THEN TRUE
    ELSE IF query_type = "attractions" /\ ~Truthy("destination", entities.destination)
    THEN TRUE
    ELSE IF query_type = "accommodation" /\ ~Truthy("destination", entities.destination)
    THEN TRUE
    ELSE FALSE

\* needs_clarification with "or" for "and" in the destination rule
needs_clarification_destination_or(query_type, entities) ==
    IF /\ query_type = "destination"
       /\ \/ ~Truthy("interests", entities.interests)
          \/ ~Truthy("destination", entities.destination)
    THEN TRUE
    ELSE IF query_type = "packing" /\ ~Truthy("destination", entities.destination)
    THEN TRUE
    ELSE IF query_type = "attractions" /\ ~Truthy("destination", entities.destination)
    THEN TRUE
    ELSE FALSE

\* needs_clarification with the attractions rule reading the interests, as the
\* destination rule does
needs_clarification_attractions_interests(query_type, entities) ==
    IF /\ query_type = "destination"
       /\ ~Truthy("interests", entities.interests)
       /\ ~Truthy("destination", entities.destination)
    THEN TRUE
    ELSE IF query_type = "packing" /\ ~Truthy("destination", entities.destination)
    THEN TRUE
    ELSE IF /\ query_type = "attractions"
            /\ ~Truthy("interests", entities.interests)
            /\ ~Truthy("destination", entities.destination)
    THEN TRUE
    ELSE FALSE

needs_clarification(query_type, entities) ==
    IF /\ query_type = "destination"
       /\ ~Truthy("interests", entities.interests)
       /\ ~Truthy("destination", entities.destination)
    THEN TRUE
    ELSE IF query_type = "packing" /\ ~Truthy("destination", entities.destination)
    THEN TRUE
    ELSE IF query_type = "attractions" /\ ~Truthy("destination", entities.destination)
    THEN TRUE
    ELSE FALSE

_ask_for_clarification(query_type) ==
    CASE query_type = "destination" ->
            "What kind of experience are you looking for? (beaches, cities, culture, adventure) And what's your budget?"
      [] query_type = "packing" ->
            "To give you the best packing advice, where are you traveling to?"
      [] query_type = "attractions" ->
            "I'd love to suggest attractions! Which city or country are you visiting?"
      [] query_type = "general" ->
            "Could you tell me more about what you're looking for?"
      [] OTHER -> "Could you provide more details?"

_generate_followup_question(query_type, entities) ==
    IF query_type = "attractions" /\ ~Truthy("interests", entities.interests)
    THEN "Are you more interested in art, history, food, or outdoor activities?"
    ELSE IF query_type = "packing" /\ ~Truthy("duration", entities.duration)
    THEN "How long will you be traveling for?"
    ELSE IF query_type = "destination" /\ ~Truthy("budget", entities.budget)
    THEN "What budget range are you considering?"
    ELSE None

\* what the POST to the model can come to
LLMOutcomes == {"text", "empty", "timeout", "connection_error", "error"}

\* call_llm that reports a timeout in plain words instead of a sentinel
call_llm_plain_timeout(errors, outcome) ==
    IF errors >= max_consecutive_errors
    THEN [errors |-> errors, text |-> "__LLM_SKIPPED__"]
    ELSE CASE outcome = "text" -> [errors |-> 0, text |-> "llm text"]
           [] outcome = "empty" -> [errors |-> 0, text |-> "__LLM_EMPTY_RESPONSE__"]
           [] outcome = "timeout" -> [errors |-> errors + 1, text |-> "LLM timeout"]
           [] outcome = "connection_error" ->
                [errors |-> errors + 1, text |-> "__LLM_CONNECTION_ERROR__"]
           [] outcome = "error" -> [errors |-> errors + 1, text |-> "__LLM_ERROR__"]

\* call_llm: the error counter after the call and what it returns
call_llm(errors, outcome) ==
    IF errors >= max_consecutive_errors
    THEN [errors |-> errors, text |-> "__LLM_SKIPPED__"]
    ELSE CASE outcome = "text" -> [errors |-> 0, text |-> "llm text"]
           [] outcome = "empty" -> [errors |-> 0, text |-> "__LLM_EMPTY_RESPONSE__"]
           [] outcome = "timeout" -> [errors |-> errors + 1, text |-> "__LLM_TIMEOUT__"]
           [] outcome = "connection_error" ->
                [errors |-> errors + 1, text |-> "__LLM_CONNECTION_ERROR__"]
           [] outcome = "error" -> [errors |-> errors + 1, text |-> "__LLM_ERROR__"]

\* _get_intelligent_response: which template answers
_get_intelligent_response(query_type) ==
    IF query_type \in {"attractions", "packing", "destination"}
    THEN "template " \o query_type
    ELSE "template general"

(* PromptEngine: conversation_history is a list of messages.               *)

\* the default of max_messages in get_recent_history
max_messages == 5

\* add_to_history that keeps the first ten messages
add_to_history_keep_first(messages, role, content) ==
    LET all == Append(messages, [role |-> role, content |-> content])
    IN  IF Len(all) > 10 THEN SubSeq(all, 1, 10) ELSE all

\* PromptEngine.add_to_history: append, then keep the last ten messages
add_to_history(messages, role, content) ==
    LET all == Append(messages, [role |-> role, content |-> content])
    IN  IF Len(all) > 10 THEN SubSeq(all, Len(all) - 9, Len(all)) ELSE all

RECURSIVE JoinLines(_)
\* "\n".join(f"{m['role']}: {m['content']}" for m in recent)
JoinLines(recent) ==
    IF recent = <<>> THEN ""
    ELSE IF Len(recent) = 1 THEN recent[1].role \o ": " \o recent[1].content
    ELSE recent[1].role \o ": " \o recent[1].content \o "\n" \o JoinLines(Tail(recent))

\* conversation_history[-max_messages:]
Recent(messages) ==
    IF Len(messages) > max_messages
    THEN SubSeq(messages, Len(messages) - max_messages + 1, Len(messages))
    ELSE messages

\* PromptEngine.get_recent_history
get_recent_history(messages) ==
    "Conversation so far (use it to stay consistent and avoid repeating yourself):\n"
    \o JoinLines(Recent(messages)) \o "\n"

get_conversation_summary(st, messages, errors) ==
    [context |-> st.context,
     recent_history |-> get_recent_history(messages),
     current_topic |-> st.current_topic,
     consecutive_errors |-> errors]

\* generate_response with update_context moved above the clarification check
generate_response_merge_first(st, messages, errors, user_input, outcome) ==
    LET respond(query_type, entities) ==
            LET merged == update_context(st, user_input, query_type, entities)
                llm == call_llm(errors, outcome)
                after == IF errors < max_consecutive_errors THEN llm.errors ELSE errors
                answer == IF /\ errors < max_consecutive_errors
                             /\ ~LitAt(llm.text, "__LLM_", 1)
                          THEN llm.text
                          ELSE _get_intelligent_response(query_type)
                stored == add_to_history(add_to_history(messages, "user", user_input),
                                         "assistant", answer)
            IN  IF needs_clarification(query_type, entities)
                THEN [st |-> merged, messages |-> messages, errors |-> errors,
                      query_type |-> query_type, entities |-> entities,
                      clarification |-> TRUE,
                      answer |-> _ask_for_clarification(query_type),
                      followup |-> None,
                      summary |-> get_conversation_summary(merged, messages, errors)]
                ELSE [st |-> merged, messages |-> stored, errors |-> after,
                      query_type |-> query_type, entities |-> entities,
                      clarification |-> FALSE,
                      answer |-> answer,
                      followup |-> _generate_followup_question(query_type, entities),
                      summary |-> get_conversation_summary(merged, stored, after)]
    IN  respond(Classify(user_input), Extract(user_input, st.context))

\* generate_response that gives the model a new chance after a skipped call
generate_response_recover(st, messages, errors, user_input, outcome) ==
    LET respond(query_type, entities) ==
            LET merged == update_context(st, user_input, query_type, entities)
                llm == call_llm(errors, outcome)
                after == IF errors < max_consecutive_errors THEN llm.errors ELSE 0
                answer == IF /\ errors < max_consecutive_errors
                             /\ ~LitAt(llm.text, "__LLM_", 1)
                          THEN llm.text
                          ELSE _get_intelligent_response(query_type)
                stored == add_to_history(add_to_history(messages, "user", user_input),
                                         "assistant", answer)
            IN  IF needs_clarification(query_type, entities)
                THEN [st |-> st, messages |-> messages, errors |-> errors,
                      query_type |-> query_type, entities |-> entities,
                      clarification |-> TRUE,
                      answer |-> _ask_for_clarification(query_type),
                      followup |-> None,
                      summary |-> get_conversation_summary(st, messages, errors)]
                ELSE [st |-> merged, messages |-> stored, errors |-> after,
                      query_type |-> query_type, entities |-> entities,
                      clarification |-> FALSE,
                      answer |-> answer,
                      followup |-> _generate_followup_question(query_type, entities),
                      summary |-> get_conversation_summary(merged, stored, after)]
    IN  respond(Classify(user_input), Extract(user_input, st.context))

\* generate_response: the session and the error counter after the turn, and
\* the response; outcome is what the model call of this turn comes to
generate_response(st, messages, errors, user_input, outcome) ==
    LET respond(query_type, entities) ==
            LET merged == update_context(st, user_input, query_type, entities)
                llm == call_llm(errors, outcome)
                after == IF errors < max_consecutive_errors THEN llm.errors ELSE errors
                answer == IF /\ errors < max_consecutive_errors
                             /\ ~LitAt(llm.text, "__LLM_", 1)
                          THEN llm.text
                          ELSE _get_intelligent_response(query_type)
                stored == add_to_history(add_to_history(messages, "user", user_input),
                                         "assistant", answer)
            IN  IF needs_clarification(query_type, entities)
                THEN [st |-> st, messages |-> messages, errors |-> errors,
                      query_type |-> query_type, entities |-> entities,
                      clarification |-> TRUE,
                      answer |-> _ask_for_clarification(query_type),
                      followup |-> None,
                      summary |-> get_conversation_summary(st, messages, errors)]
                ELSE [st |-> merged, messages |-> stored, errors |-> after,
                      query_type |-> query_type, entities |-> entities,
                      clarification |-> FALSE,
                      answer |-> answer,
                      followup |-> _generate_followup_question(query_type, entities),
                      summary |-> get_conversation_summary(merged, stored, after)]
    IN  respond(Classify(user_input), Extract(user_input, st.context))

-----------------------------------------------------------------------------
(* The session: turns and resets, as the router and the CLI drive them.    *)

Session == [context |-> context, current_topic |-> current_topic, history |-> history]

SetSession(st) ==
    /\ context' = st.context
    /\ current_topic' = st.current_topic
    /\ history' = st.history

Init ==
    /\ context = NewSession.context
    /\ current_topic = NewSession.current_topic
    /\ history = NewSession.history
    /\ conversation_history = <<>>
    /\ consecutive_errors = 0
    /\ call = [op |-> "init"]

\* one turn: TravelAssistant.generate_response(text)
GenerateResponse(text, outcome) ==
    LET r == generate_response(Session, conversation_history, consecutive_errors,
                               text, outcome)
    IN  /\ Len(r.st.history) <= MaxTurns
        /\ Len(r.messages) <= 2 * MaxTurns
        /\ SetSession(r.st)
        /\ conversation_history' = r.messages
        /\ consecutive_errors' = r.errors
        /\ call' = [op |-> "generate_response", text |-> text,
                    query_type |-> r.query_type, entities |-> r.entities,
                    clarification |-> r.clarification, answer |-> r.answer,
                    followup |-> r.followup, summary |-> r.summary]

\* POST /reset: assistant.conversation_manager.reset()
Reset ==
    /\ SetSession(reset(Session))
    /\ UNCHANGED <<conversation_history, consecutive_errors>>
    /\ call' = [op |-> "reset", turns |-> Len(history)]

\* what the user says in the turns of the session
TurnTexts ==
    {"where should I go,", "any hostel recs?", "What should I pack?", "in Paris",
     "for 5 days"}

Next ==
    \/ \E text \in TurnTexts, outcome \in LLMOutcomes : GenerateResponse(text, outcome)
    \/ Reset

Spec == Init /\ [][Next]_vars

-----------------------------------------------------------------------------
(* The methods on their own: classify_query, extract_entities and          *)
(* needs_clarification applied once to an input, on a session that has     *)
(* seen at most one turn.                                                  *)

\* the sessions a first turn can leave
PriorSessions ==
    {[st |-> NewSession, messages |-> <<>>]}
    \cup {LET r == generate_response(NewSession, <<>>, 0, t, "text")
          IN  [st |-> r.st, messages |-> r.messages] : t \in SessionTexts}

InitCalls ==
    /\ \E prior \in PriorSessions :
            /\ context = prior.st.context
            /\ current_topic = prior.st.current_topic
            /\ history = prior.st.history
            /\ conversation_history = prior.messages
    /\ consecutive_errors = 0
    /\ call = [op |-> "init"]

\* ConversationManager.classify_query(text)
ClassifyCall(text) ==
    /\ call.op = "init"
    /\ call' = [op |-> "classify_query", text |-> text, result |-> Classify(text)]
    /\ UNCHANGED <<context, current_topic, history, conversation_history, consecutive_errors>>

\* ConversationManager.extract_entities(text)
ExtractCall(text) ==
    /\ call.op = "init"
    /\ call' = [op |-> "extract_entities", text |-> text,
                entities |-> Extract(text, context)]
    /\ UNCHANGED <<context, current_topic, history, conversation_history, consecutive_errors>>

\* TravelAssistant.needs_clarification(query_type, entities)
NeedsClarificationCall(query_type, entities) ==
    /\ call.op = "init"
    /\ call' = [op |-> "needs_clarification", query_type |-> query_type,
                entities |-> entities,
                result |-> needs_clarification(query_type, entities)]
    /\ UNCHANGED <<context, current_topic, history, conversation_history, consecutive_errors>>

NextCalls ==
    \/ \E text \in Utterances : ClassifyCall(text)
    \/ \E text \in ExtractTexts : ExtractCall(text)
    \/ \E query_type \in QueryTypeValues, entities \in EntityInputs :
            NeedsClarificationCall(query_type, entities)

SpecCalls == InitCalls /\ [][NextCalls]_vars

-----------------------------------------------------------------------------
(* update_context and reset called directly, any entities on any turn.     *)

\* ConversationManager.update_context(text, query_type, entities)
UpdateContextCall(text, query_type, entities) ==
    /\ Len(history) < MaxTurns
    /\ SetSession(update_context(Session, text, query_type, entities))
    /\ UNCHANGED <<conversation_history, consecutive_errors>>
    /\ call' = [op |-> "update_context", text |-> text,
                query_type |-> query_type, entities |-> entities]

\* ConversationManager.reset()
ResetCall ==
    /\ SetSession(reset(Session))
    /\ UNCHANGED <<conversation_history, consecutive_errors>>
    /\ call' = [op |-> "reset", turns |-> Len(history)]

NextUpdate ==
    \/ \E text \in UpdateTexts, query_type \in UpdateTypes, entities \in EntityInputs :
            UpdateContextCall(text, query_type, entities)
    \/ ResetCall

SpecUpdate == Init /\ [][NextUpdate]_vars

-----------------------------------------------------------------------------
(* core/flow: TemporalResolver and BudgetInterpreter.  An Optional[int],   *)
(* Optional[date] or Optional[float] is <<>> for None and <<x>> for the    *)
(* value x; a date is a day number.                                        *)

Absent == <<>>
Some(x) == <<x>>

UpperCh(c) ==
    IF c \in LowerSet
    THEN Ch(UpperAlpha, CHOOSE i \in 1..Len(LowerAlpha) : Ch(LowerAlpha, i) = c)
    ELSE c

RECURSIVE upper(_)
\* str.upper()
upper(s) == IF s = "" THEN "" ELSE UpperCh(Head(s)) \o upper(Tail(s))

DigitValue(c) == (CHOOSE i \in 1..Len(DigitChars) : Ch(DigitChars, i) = c) - 1

RECURSIVE StrToNat(_)
\* int(s) and float(s) for a string of digits
StrToNat(s) ==
    IF s = "" THEN 0
    ELSE 10 * StrToNat(SubSeq(s, 1, Len(s) - 1)) + DigitValue(Ch(s, Len(s)))

\* (u1|u2|...)\b at p: the first alternative that stands at p with a word
\* boundary after it, or ""
UnitAt(s, units, p) ==
    LET ok == {k \in 1..Len(units) :
                 LitAt(s, units[k], p) /\ Boundary(s, p + Len(units[k]))}
    IN  IF ok = {} THEN "" ELSE units[Least(ok)]

\* (\d+)\s+(unit)\b at p: the quantity and the unit, or Absent
QuantityAt(s, units, p) ==
    LET d == RunEnd(s, p, DigitSet)
        u == RunEnd(s, d, SpaceSet)
    IN  IF d > p /\ u > d /\ UnitAt(s, units, u) # ""
        THEN Some([qty |-> StrToNat(SubSeq(s, p, d - 1)), unit |-> UnitAt(s, units, u)])
        ELSE Absent

relative_units == <<"day", "days", "week", "weeks">>

\* \bin\s+(\d+)\s+(day|days|week|weeks)\b at i
RelativeAt(s, i) ==
    LET p == RunEnd(s, i + 2, SpaceSet)
    IN  IF Boundary(s, i) /\ LitAt(s, "in", i) /\ p > i + 2
        THEN QuantityAt(s, relative_units, p)
        ELSE Absent

_extract_relative_days(text) ==
    LET s == lower(text)
        at == {i \in 1..Len(s) : RelativeAt(s, i) # Absent}
        m == RelativeAt(s, Least(at))[1]
    IN  IF at = {} THEN Absent
        ELSE Some(m.qty * (IF In("week", m.unit) THEN 7 ELSE 1))

stay_units == <<"day", "days", "night", "nights", "week", "weeks">>

\* \b(\d+)\s+(day|days|night|nights|week|weeks)\b at i
StayAt(s, i) ==
    IF Boundary(s, i) /\ InClass(s, i, DigitSet)
    THEN QuantityAt(s, stay_units, i)
    ELSE Absent

_extract_duration_days(text) ==
    LET s == lower(text)
        at == {i \in 1..Len(s) : StayAt(s, i) # Absent}
        m == StayAt(s, Least(at))[1]
    IN  IF at = {} THEN Absent
        ELSE Some(IF In("week", m.unit) THEN m.qty * 7 ELSE m.qty)

\* TemporalResolver.resolve at the date now: (start, end, nights)
resolve(text, now) ==
    LET rel_days == _extract_relative_days(text)
        dur_days == _extract_duration_days(text)
        start == IF rel_days # Absent /\ rel_days[1] # 0
                 THEN Some(now + rel_days[1]) ELSE Absent
        nights == IF dur_days # Absent /\ dur_days[1] # 0
                  THEN dur_days ELSE Absent
        end == IF start # Absent /\ nights # Absent
               THEN Some(start[1] + nights[1]) ELSE Absent
    IN  [start |-> start, end |-> end, nights |-> nights]

\* \bunlimited\b|\bno\s*limit\b|\bno budget\b, re.I
UnlimitedCue(text) ==
    LET s == lower(text) IN
    \E i \in 1..Len(s) :
        /\ Boundary(s, i)
        /\ \/ LitAt(s, "unlimited", i) /\ Boundary(s, i + 9)
           \/ /\ LitAt(s, "no", i)
              /\ LET j == RunEnd(s, i + 2, SpaceSet)
                 IN  LitAt(s, "limit", j) /\ Boundary(s, j + 5)
           \/ LitAt(s, "no budget", i) /\ Boundary(s, i + 9)

\* the currency sign of the price pattern (ASCII texts hold no other)
price_symbols == {"$"}
price_currencies == <<"usd", "eur", "gbp", "dollars", "euros", "pounds">>
symbol_currency == [x \in price_symbols |-> "USD"]

\* (\$|EUR-sign|GBP-sign)?\s*(\d{2,5}) at i: the position of the digits, or 0
PriceDigitsAt(s, i) ==
    LET a == RunEnd(s, i + 1, SpaceSet)
        b == RunEnd(s, i, SpaceSet)
    IN  IF Ch(s, i) \in price_symbols /\ InClass(s, a, DigitSet) /\ InClass(s, a + 1, DigitSet)
        THEN a
        ELSE IF InClass(s, b, DigitSet) /\ InClass(s, b + 1, DigitSet)
        THEN b
        ELSE 0

\* parse that tries the numeric match before the unlimited cue
parse_numeric_first(text) ==
    LET s == lower(text)
        at == {i \in 1..Len(s) : PriceDigitsAt(s, i) # 0}
        i == Least(at)
        d == PriceDigitsAt(s, i)
        sym == IF d > i /\ Ch(s, i) \in price_symbols THEN Ch(s, i) ELSE ""
        run == RunEnd(s, d, DigitSet)
        e == IF run > d + 5 THEN d + 5 ELSE run
        c == RunEnd(s, e, SpaceSet)
        k == FirstAltAt(s, price_currencies, c)
    IN  IF at # {}
        THEN [unlimited |-> FALSE,
              amount |-> Some(StrToNat(SubSeq(s, d, e - 1))),
              currency |-> IF k # 0 THEN upper(price_currencies[k])
                           ELSE IF sym # "" THEN symbol_currency[sym]
                           ELSE None]
        ELSE IF UnlimitedCue(text)
        THEN [unlimited |-> TRUE, amount |-> Absent, currency |-> None]
        ELSE [unlimited |-> FALSE, amount |-> Absent, currency |-> None]

\* BudgetInterpreter.parse: (unlimited, max_price_per_night, currency)
parse(text) ==
    LET s == lower(text)
        at == {i \in 1..Len(s) : PriceDigitsAt(s, i) # 0}
        i == Least(at)
        d == PriceDigitsAt(s, i)
        sym == IF d > i /\ Ch(s, i) \in price_symbols THEN Ch(s, i) ELSE ""
        run == RunEnd(s, d, DigitSet)
        e == IF run > d + 5 THEN d + 5 ELSE run
        c == RunEnd(s, e, SpaceSet)
        k == FirstAltAt(s, price_currencies, c)
    IN  IF UnlimitedCue(text)
        THEN [unlimited |-> TRUE, amount |-> Absent, currency |-> None]
        ELSE IF at = {}
        THEN [unlimited |-> FALSE, amount |-> Absent, currency |-> None]
        ELSE [unlimited |-> FALSE,
              amount |-> Some(StrToNat(SubSeq(s, d, e - 1))),
              currency |-> IF k # 0 THEN upper(price_currencies[k])
                           ELSE IF sym # "" THEN symbol_currency[sym]
                           ELSE None]

-----------------------------------------------------------------------------
(* TemporalResolver.resolve and BudgetInterpreter.parse on their own.      *)

RECURSIVE TextsOf(_, _)
\* the texts of at most k of the phrases
TextsOf(phrases, k) ==
    IF k = 0 THEN {""}
    ELSE TextsOf(phrases, k - 1)
         \cup {IF u = "" THEN p ELSE u \o " " \o p :
                  u \in TextsOf(phrases, k - 1), p \in phrases}

TemporalPhrases ==
    {"in 2 days from now,", "staying for 14 days", "in 3 days", "for 5 nights",
     "in 1 week", "for 2 weeks", "In 0 days", "next month"}

\* the texts handed to TemporalResolver.resolve
TemporalTexts == TextsOf(TemporalPhrases, MaxPhrases)

\* the dates datetime.now(IL_TZ).date() gives, as day numbers
Todays == {0, 364}

BudgetPhrases ==
    {"unlimited budget", "No Limit", "no budget", "$200 per night", "150 eur",
     "up to 5000 dollars", "cheap", "for 5 nights"}

\* the texts handed to BudgetInterpreter.parse
BudgetTexts == TextsOf(BudgetPhrases, MaxPhrases)

\* TemporalResolver.resolve(text)
ResolveCall(text, now) ==
    /\ call.op = "init"
    /\ call' = [op |-> "resolve", text |-> text, now |-> now,
                result |-> resolve(text, now)]
    /\ UNCHANGED <<context, current_topic, history, conversation_history, consecutive_errors>>

\* BudgetInterpreter.parse(text)
ParseCall(text) ==
    /\ call.op = "init"
    /\ call' = [op |-> "parse", text |-> text, result |-> parse(text)]
    /\ UNCHANGED <<context, current_topic, history, conversation_history, consecutive_errors>>

NextFlow ==
    \/ \E text \in TemporalTexts, now \in Todays : ResolveCall(text, now)
    \/ \E text \in BudgetTexts : ParseCall(text)

SpecFlow == Init /\ [][NextFlow]_vars

-----------------------------------------------------------------------------
(* router/routes_assistant.py: one TravelAssistant, created when the       *)
(* module is imported, serves every request.  A request carries a text and *)
(* nothing that names its conversation; the client below is who sent it.   *)

Clients == {"a", "b"}

\* what each client says
ClientTexts ==
    [c \in Clients |->
        IF c = "a" THEN {"in Paris", "What should I pack?"}
        ELSE {"to Milan", "any hostel recs?"}]

\* POST /assistant/ask: generate_response runs on the shared assistant and
\* returns a dict; awaiting the dict raises TypeError, which the handler
\* turns into HTTPException(500)
ask_travel_assistant(client, text, outcome) ==
    LET r == generate_response(Session, conversation_history, consecutive_errors,
                               text, outcome)
    IN  /\ Len(r.st.history) <= MaxTurns
        /\ Len(r.messages) <= 2 * MaxTurns
        /\ SetSession(r.st)
        /\ conversation_history' = r.messages
        /\ consecutive_errors' = r.errors
        /\ call' = [op |-> "ask", client |-> client, text |-> text,
                    raw_result |-> [answer |-> r.answer, followup |-> r.followup,
                                    context |-> r.summary],
                    status_code |-> 500,
                    detail |-> "Assistant error: object dict can't be used in 'await' expression"]

\* POST /assistant/reset
reset_conversation(client) ==
    /\ SetSession(reset(Session))
    /\ UNCHANGED <<conversation_history, consecutive_errors>>
    /\ call' = [op |-> "reset_conversation", client |-> client, status_code |-> 200,
                body |-> [ok |-> TRUE, message |-> "Conversation reset successfully."]]

NextRouter ==
    \/ \E client \in Clients, outcome \in LLMOutcomes :
          \E text \in ClientTexts[client] : ask_travel_assistant(client, text, outcome)
    \/ \E client \in Clients : reset_conversation(client)

SpecRouter == Init /\ [][NextRouter]_vars

-----------------------------------------------------------------------------
(* Turns that name interests.                                              *)

InterestTexts == {"beach holiday", "city museum tour", "in Paris"}

NextInterests ==
    \/ \E text \in InterestTexts, outcome \in LLMOutcomes : GenerateResponse(text, outcome)
    \/ Reset

SpecInterests == Init /\ [][NextInterests]_vars

-----------------------------------------------------------------------------
(* core/intent.py: the trip intent and its accommodation preferences, and  *)
(* what ItineraryResponder.respond reads from context["trip_intent"].  A   *)
(* parameter that is None is a field left at its default.                  *)

AccommodationPrefs(type, vibe, budget_unlimited) ==
    [type |-> type, vibe |-> vibe, budget_unlimited |-> budget_unlimited,
     max_price_per_night |-> None, currency |-> None]

TripIntent(destination, accommodation) ==
    [destination |-> destination, start_date |-> None, end_date |-> None,
     nights |-> None, purpose |-> "tourism", interests |-> <<>>,
     accommodation |-> accommodation]

\* TripIntent.as_context
as_context(self) ==
    [destination |-> self.destination,
     start_date |-> self.start_date,
     end_date |-> self.end_date,
     nights |-> self.nights,
     purpose |-> self.purpose,
     interests |-> self.interests,
     accommodation |-> [type |-> self.accommodation.type,
                        vibe |-> self.accommodation.vibe,
                        budget_unlimited |-> self.accommodation.budget_unlimited,
                        max_price_per_night |-> self.accommodation.max_price_per_night,
                        currency |-> self.accommodation.currency]]

\* ItineraryResponder.respond: the stay line it renders
respond_stay(ctx) ==
    LET acc == ctx.trip_intent.accommodation
    IN  [acc_type |-> IF acc.type \notin {None, ""} THEN acc.type ELSE "hotel",
         vibe |-> IF acc.vibe \notin {None, ""} THEN acc.vibe ELSE "any"]

\* a trip intent is built, attached to the context and read by the responder
TripIntentCall(destination, type, vibe, budget_unlimited) ==
    LET ctx == [trip_intent |->
                  as_context(TripIntent(destination,
                                        AccommodationPrefs(type, vibe, budget_unlimited)))]
    IN  /\ call.op = "init"
        /\ call' = [op |-> "trip_intent", type |-> type, vibe |-> vibe,
                    context |-> ctx, stay |-> respond_stay(ctx)]
        /\ UNCHANGED <<context, current_topic, history, conversation_history, consecutive_errors>>

SpecIntent ==
    Init /\ [][\E destination \in {None, "Paris"},
                  type \in {None, "hotel", "hostel", "apartment", "resort",
                             "guesthouse", "bnb", "motel"},
                  vibe \in {None, "any", "luxury", "boutique", "business", "family",
                             "romantic", "party", "quiet"},
                  budget_unlimited \in BOOLEAN :
                    TripIntentCall(destination, type, vibe, budget_unlimited)]_vars

-----------------------------------------------------------------------------
(* TravelAssistant.consecutive_errors over the turns of one process: the   *)
(* counter lives as long as the assistant, through resets of the session.  *)

ErrorTexts == {"in Paris", "What should I pack?"}

\* one turn, with what the model call came to and the counter it found
GenerateResponseCall(text, outcome) ==
    LET r == generate_response(Session, conversation_history, consecutive_errors,
                               text, outcome)
    IN  /\ Len(r.st.history) <= MaxTurns
        /\ Len(r.messages) <= 2 * MaxTurns + 2
        /\ SetSession(r.st)
        /\ conversation_history' = r.messages
        /\ consecutive_errors' = r.errors
        /\ call' = [op |-> "generate_response", text |-> text,
                    outcome |-> outcome, errors |-> consecutive_errors,
                    query_type |-> r.query_type, clarification |-> r.clarification,
                    answer |-> r.answer]

NextErrors ==
    \/ \E text \in ErrorTexts, outcome \in LLMOutcomes :
          GenerateResponseCall(text, outcome)
    \/ Reset

SpecErrors == Init /\ [][NextErrors]_vars

-----------------------------------------------------------------------------
(* The prompt engine's message list under direct add_to_history calls and  *)
(* under turns; call.arrived is every message handed over so far, in       *)
(* order, and call.recent what get_recent_history renders afterwards.      *)

\* prompt_engine.add_to_history(role, content)
AddToHistoryCall(role, content) ==
    LET arrived == IF "arrived" \in DOMAIN call THEN call.arrived ELSE <<>>
        stored == add_to_history(conversation_history, role, content)
    IN  /\ Len(arrived) <= 10
        /\ conversation_history' = stored
        /\ call' = [op |-> "add_to_history",
                    arrived |-> Append(arrived, [role |-> role, content |-> content]),
                    recent |-> get_recent_history(stored)]
        /\ UNCHANGED <<context, current_topic, history, consecutive_errors>>

\* one turn of generate_response, with the messages it stores
GenerateResponseStore(text, outcome) ==
    LET arrived == IF "arrived" \in DOMAIN call THEN call.arrived ELSE <<>>
        r == generate_response(Session, conversation_history, consecutive_errors,
                               text, outcome)
    IN  /\ Len(arrived) <= 9
        /\ Len(r.st.history) <= 1
        /\ SetSession(r.st)
        /\ conversation_history' = r.messages
        /\ consecutive_errors' = r.errors
        /\ call' = [op |-> "generate_response", text |-> text,
                    clarification |-> r.clarification, answer |-> r.answer,
                    arrived |-> IF r.clarification THEN arrived
                                ELSE arrived \o <<[role |-> "user", content |-> text],
                                                  [role |-> "assistant", content |-> r.answer]>>,
                    recent |-> r.summary.recent_history]

SpecHistory ==
    Init /\ [][\/ \E role \in {"user", "assistant"}, content \in {"hi"} :
                    AddToHistoryCall(role, content)
               \/ \E text \in {"in Paris"}, outcome \in {"text", "timeout"} :
                    GenerateResponseStore(text, outcome)]_vars

-----------------------------------------------------------------------------
(* The properties.                                                         *)

\* the fixed order of the categories
PrecedenceOrder ==
    <<"itinerary", "weather", "visa", "accommodation", "destination",
      "packing", "attractions", "budget", "best_time", "safety">>

\* the places in PrecedenceOrder of the categories whose cue set matches the
\* lower-cased text
MatchingCategories(user_input) ==
    {i \in 1..Len(PrecedenceOrder) : Cue(PrecedenceOrder[i], lower(user_input))}

MatchingCategories_table == [t \in Utterances |-> MatchingCategories(t)]

Greatest(S) == CHOOSE x \in S : \A y \in S : y <= x

\* C1: classify_query returns the earliest category, in the order itinerary,
\* weather, visa, accommodation, destination, packing, attractions, budget,
\* best_time, safety, whose cue set matches the lower-cased text.
C1_ClassifyEarliestMatch ==
    call.op = "classify_query" =>
        LET m == MatchingCategories_table[call.text]
        IN  m # {} => call.result = PrecedenceOrder[Least(m)]

\* a text with a hostel keyword and a "where should I go" phrase, and no
\* weather, visa or itinerary cue, classified accommodation
C1_Witness ==
    /\ call.op = "classify_query"
    /\ call.text = "where should I go, any hostel recs?"
    /\ MatchingCategories_table[call.text] = {4, 5}
    /\ call.result = "accommodation"

\* C2: classify_query returns a member of the closed intent set for every
\* text, and general whenever no category's cue set matches, the empty string
\* included.
C2_ClassifyTotal ==
    call.op = "classify_query" =>
        /\ call.result \in QueryTypeValues
        /\ MatchingCategories_table[call.text] = {} => call.result = "general"

C2_Witness ==
    /\ call.op = "classify_query"
    /\ call.text = ""
    /\ MatchingCategories_table[call.text] = {}
    /\ call.result = "general"

\* C3: a turn of generate_response for which needs_clarification is true
\* leaves the context (slots, previous_topic, flags), current_topic and the
\* turn history as they were before the turn.
C3_ClarificationLeavesSession ==
    [][(call'.op = "generate_response" /\ call'.clarification)
            => UNCHANGED <<context, current_topic, history>>]_vars

\* a clarification turn on a session that holds a turn, a topic and a slot
C3_Witness ==
    /\ call.op = "generate_response"
    /\ call.clarification
    /\ Len(history) > 0
    /\ current_topic # None
    /\ Truthy("duration", Get(context, "duration"))

\* C4: after any sequence of update_context calls every slot holds the value
\* of the latest call whose entities had a non-empty value for it, and no
\* value when no call had one; an empty value leaves the slot as it was.
C4_LastWriteWins ==
    \A k \in EntityKeys :
        LET calls == {i \in 1..Len(history) : Truthy(k, history[i].entities[k])}
        IN  IF calls = {}
            THEN ~Truthy(k, Get(context, k))
            ELSE Get(context, k) = history[Greatest(calls)].entities[k]

\* destination Rome then Milan leaves Milan
C4_Witness ==
    /\ Len(history) = 2
    /\ history[1].entities.destination = "Rome"
    /\ history[2].entities.destination = "Milan"
    /\ context.destination = "Milan"

\* C5: for destination, duration, budget, citizenship and purpose,
\* extract_entities returns the utterance's value when the utterance gives
\* one, and the value of the context when the utterance gives none and the
\* context holds one.
C5_ContextCarryOver ==
    call.op = "extract_entities" =>
        \A k \in ReuseKeys :
            LET said == UtteranceEntities_table[call.text][k]
            IN  IF Truthy(k, said) THEN call.entities[k] = said
                ELSE Truthy(k, Get(context, k)) => call.entities[k] = context[k]

\* "What should I pack?" on a session whose destination is Paris
C5_Witness ==
    /\ call.op = "extract_entities"
    /\ call.text = "What should I pack?"
    /\ ~Truthy("destination", UtteranceEntities_table[call.text].destination)
    /\ Get(context, "destination") = "Paris"
    /\ call.entities.destination = "Paris"

\* C6: after reset the session is the initial empty one (no slot, no
\* previous_topic, no flag, no topic, no turn), and a second reset leaves it
\* so.
C6_ResetYieldsInitialState ==
    call.op = "reset" =>
        /\ Session = NewSession
        /\ reset(Session) = Session

\* a reset of a session that held turns
C6_Witness ==
    /\ call.op = "reset"
    /\ call.turns > 0
    /\ history = <<>>

\* C7 as stated: for packing, needs_clarification is true whenever the
\* destination or the duration is absent.
C7_PackingDestinationOrDuration ==
    (/\ call.op = "needs_clarification"
     /\ call.query_type = "packing"
     /\ \/ ~Truthy("destination", call.entities.destination)
        \/ ~Truthy("duration", call.entities.duration))
        => call.result = TRUE

\* C7: for packing, needs_clarification is true exactly when the destination
\* is absent; the duration has no influence.
C7_PackingDestinationOnly ==
    (call.op = "needs_clarification" /\ call.query_type = "packing")
        => (call.result <=> ~Truthy("destination", call.entities.destination))

\* a packing request with a destination and no duration, not held
C7_Witness ==
    /\ call.op = "needs_clarification"
    /\ call.query_type = "packing"
    /\ call.entities.destination = "Rome"
    /\ call.entities.duration = None
    /\ call.result = FALSE

\* C8 as stated: an accommodation turn gets the clarification prompt exactly
\* when no destination is known from the turn or the session.
C8_AccommodationNeedsDestination ==
    (call.op = "generate_response" /\ call.query_type = "accommodation")
        => (call.clarification <=> ~Truthy("destination", call.entities.destination))

\* C8: an accommodation turn is never held for clarification: with or without
\* a destination it is merged into the session, which then holds the turn and
\* the accommodation flag.
C8_AccommodationNeverHeld ==
    (call.op = "generate_response" /\ call.query_type = "accommodation")
        => /\ ~call.clarification
           /\ Len(history) > 0
           /\ history[Len(history)].query = call.text
           /\ current_topic = "accommodation"
           /\ "accommodation_intent" \in DOMAIN context
           /\ context.accommodation_intent = TRUE

\* an accommodation turn with no destination known, merged
C8_Witness ==
    /\ call.op = "generate_response"
    /\ call.query_type = "accommodation"
    /\ ~Truthy("destination", call.entities.destination)
    /\ ~call.clarification
    /\ history[Len(history)].query = call.text

\* C9: for the destination intent, needs_clarification is true exactly when
\* both the destination and the interests are empty.
C9_DestinationBothEmpty ==
    (call.op = "needs_clarification" /\ call.query_type = "destination")
        => (call.result <=> (/\ ~Truthy("destination", call.entities.destination)
                             /\ ~Truthy("interests", call.entities.interests)))

\* interests [beach] and no destination: false
C9_Witness ==
    /\ call.op = "needs_clarification"
    /\ call.query_type = "destination"
    /\ call.entities.interests = <<"beach">>
    /\ call.entities.destination = None
    /\ call.result = FALSE

\* C10: for the attractions intent, needs_clarification is true exactly when
\* the destination is absent, whatever the interests, the duration and the
\* other slots.
C10_AttractionsDestinationOnly ==
    (call.op = "needs_clarification" /\ call.query_type = "attractions")
        => (call.result <=> ~Truthy("destination", call.entities.destination))

\* no destination, interests and duration given: still true
C10_Witness ==
    /\ call.op = "needs_clarification"
    /\ call.query_type = "attractions"
    /\ call.entities.destination = None
    /\ call.entities.interests = <<"beach">>
    /\ call.entities.duration = "5 days"
    /\ call.result = TRUE

-----------------------------------------------------------------------------
(* The cues as the specification words them: 'in N days/weeks' for the     *)
(* offset and 'for M days/nights/weeks' for the stay, each as its number   *)
(* of days.                                                                *)

\* word, blanks, a number, blanks and a unit at i: the number of days
WordedCueAt(s, word, units, i) ==
    LET p == RunEnd(s, i + Len(word), SpaceSet)
        q == IF Boundary(s, i) /\ LitAt(s, word, i) /\ p > i + Len(word)
             THEN QuantityAt(s, units, p) ELSE Absent
    IN  IF q = Absent THEN Absent
        ELSE Some(q[1].qty * (IF In("week", q[1].unit) THEN 7 ELSE 1))

WordedCues(text, word, units) ==
    LET s == lower(text)
    IN  {WordedCueAt(s, word, units, i)[1] :
            i \in {j \in 1..Len(s) : WordedCueAt(s, word, units, j) # Absent}}

OffsetCues(text) == WordedCues(text, "in", relative_units)
StayCues(text) == WordedCues(text, "for", stay_units)

\* C11: resolve on a text with an offset cue 'in N days/weeks' and a stay cue
\* 'for M days/nights/weeks' returns start = today + N, nights = M in days
\* (the stay, not the offset) and end = start + nights.
C11_OffsetAndStay ==
    (/\ call.op = "resolve"
     /\ OffsetCues(call.text) # {}
     /\ StayCues(call.text) # {})
        => \E n \in OffsetCues(call.text), m \in StayCues(call.text) :
              /\ call.result.start = Some(call.now + n)
              /\ call.result.nights = Some(m)
              /\ call.result.end = Some(call.now + n + m)

\* C12: resolve on a text with one cue only fills that cue's field: an offset
\* alone gives a start with nights and end null, a stay alone gives nights
\* with start and end null.
C12_SingleCueSingleField ==
    call.op = "resolve" =>
        /\ (OffsetCues(call.text) # {} /\ StayCues(call.text) = {})
              => /\ \E n \in OffsetCues(call.text) :
                        call.result.start = Some(call.now + n)
                 /\ call.result.nights = Absent
                 /\ call.result.end = Absent
        /\ (OffsetCues(call.text) = {} /\ StayCues(call.text) # {})
              => /\ \E m \in StayCues(call.text) : call.result.nights = Some(m)
                 /\ call.result.start = Absent
                 /\ call.result.end = Absent

\* the words of an unlimited budget in the lower-cased text
UnlimitedWords(text) == AnyIn({"unlimited", "no limit", "no budget"}, lower(text))

\* C13: parse returns (true, null, null) for every text with an unlimited /
\* no limit / no budget cue, whatever amount or currency the text also
\* holds; only a text without the cue gets the numeric match.
C13_UnlimitedOverridesAmount ==
    call.op = "parse" =>
        IF UnlimitedWords(call.text)
        THEN call.result = [unlimited |-> TRUE, amount |-> Absent, currency |-> None]
        ELSE /\ call.result.unlimited = FALSE
             /\ call.result.amount # Absent
                   <=> \E i \in 1..Len(call.text) : PriceDigitsAt(lower(call.text), i) # 0

\* an unlimited cue next to a price with a currency sign
C13_Witness ==
    /\ call.op = "parse"
    /\ UnlimitedWords(call.text)
    /\ In("$200", call.text)
    /\ call.result = [unlimited |-> TRUE, amount |-> Absent, currency |-> None]

\* C14: conversations are isolated: the session a client's request works on
\* and leaves behind holds nothing of another client's conversation, so the
\* turn history after a client's ask holds that client's utterances only.
C14_SessionsIsolated ==
    call.op = "ask" =>
        \A i \in 1..Len(history) : history[i].query \in ClientTexts[call.client]

C16_ResetStartsFromNothing ==
    call.op = "reset_conversation" =>
        /\ context = EmptyDict
        /\ current_topic = None
        /\ history = <<>>
        /\ conversation_history = <<>>
        /\ get_conversation_summary(Session, conversation_history,
                                    consecutive_errors).recent_history
             = get_recent_history(<<>>)

\* C17: for every request text POST /ask returns the answer, follow-up and
\* context that generate_response produced; it answers 500 only when
\* generate_response raises (which it does on no text of the model).
C17_AskReturnsResult ==
    call.op = "ask" =>
        /\ call.status_code = 200
        /\ "body" \in DOMAIN call
        /\ call.body.followup = call.raw_result.followup
        /\ call.body.context = call.raw_result.context

\* the cue classes of the itinerary check that an utterance holds
CueClasses(user_input) ==
    LET text == lower(user_input) IN
    {c \in {"stay", "time", "lodging"} :
        AnyIn(CASE c = "stay" -> itinerary_stay_cues
                [] c = "time" -> itinerary_time_cues
                [] c = "lodging" -> itinerary_lodging_cues, text)}

CueClasses_table == [t \in Utterances |-> CueClasses(t)]

\* C18: classify_query returns itinerary only when a stay-duration phrase, a
\* temporal phrase and a lodging phrase all occur in the lower-cased text;
\* with one class missing the classification falls through to the later
\* categories.
C18_ItineraryNeedsAllThree ==
    call.op = "classify_query" =>
        LET later == MatchingCategories_table[call.text] \ {1} IN
        IF CueClasses_table[call.text] = {"stay", "time", "lodging"}
        THEN call.result = "itinerary"
        ELSE /\ call.result # "itinerary"
             /\ call.result = IF later = {} THEN "general"
                               ELSE PrecedenceOrder[Least(later)]

\* a stay phrase and a lodging phrase without a temporal one: accommodation
C18_Witness ==
    /\ call.op = "classify_query"
    /\ CueClasses_table[call.text] = {"stay", "lodging"}
    /\ call.result = "accommodation"

\* C19: after each merged turn current_topic is the intent of that turn and
\* previous_topic the intent of the merged turn before it; after the first
\* merged turn of a session, or the first after a reset, previous_topic is
\* absent.  The turn history lists the merged turns since the last reset.
C19_TopicsFollowTurns ==
    LET n == Len(history) IN
    /\ n = 0 => /\ "current_topic" \notin DOMAIN context
                /\ "previous_topic" \notin DOMAIN context
                /\ current_topic = None
    /\ n >= 1 => /\ Get(context, "current_topic") = history[n].type
                 /\ current_topic = history[n].type
    /\ n = 1 => "previous_topic" \notin DOMAIN context
    /\ n >= 2 => Get(context, "previous_topic") = history[n - 1].type

\* two merged turns in a row with the same intent
C19_Witness ==
    /\ call.op = "generate_response"
    /\ ~call.clarification
    /\ Len(history) = 2
    /\ history[1].type = history[2].type
    /\ Get(context, "previous_topic") = history[1].type
    /\ Get(context, "current_topic") = history[2].type

\* the merged accommodation turns of the session so far
AccommodationTurns == {i \in 1..Len(history) : history[i].type = "accommodation"}

C21_HistoryAppendOnly ==
    [][/\ (call'.op = "generate_response" /\ call'.clarification)
            => history' = history
       /\ (call'.op = "generate_response" /\ ~call'.clarification)
            => history' = Append(history, [query |-> call'.text,
                                           type |-> call'.query_type,
                                           entities |-> call'.entities])
       /\ call'.op = "reset" => history' = <<>>]_vars

\* a second merged turn behind a different first one
C21_Witness ==
    /\ call.op = "generate_response"
    /\ ~call.clarification
    /\ Len(history) = 2
    /\ history[2].query = call.text
    /\ history[1].query # call.text

\* C22: interests are replaced, never merged: extract_entities returns the
\* interests of the context only when the utterance names none; when it names
\* some, the result holds only those, and after the turn is merged the
\* interests slot of the session holds only those.
C22_InterestsReplaced ==
    call.op = "generate_response" =>
        LET own == UtteranceEntities_table[call.text].interests IN
        IF own = <<>>
        THEN call.entities.interests = Get(context, "interests")
        ELSE /\ call.entities.interests = own
             /\ ~call.clarification => Get(context, "interests") = own

\* city and museum merged into a session that held beach
C22_Witness ==
    /\ call.op = "generate_response"
    /\ ~call.clarification
    /\ Len(history) = 2
    /\ history[1].entities.interests = <<"beach">>
    /\ call.entities.interests = <<"city", "museum">>
    /\ Get(context, "interests") = <<"city", "museum">>

\* the capitalized phrases of the cleaned text: those that follow in, to, for
\* or at, and all of them, in the order of the text
DestinationCues(user_input) ==
    LET cleaned == _strip_leading_question_words(user_input)
        at == {i \in 1..Len(cleaned) : CityHintAt(cleaned, i) # 0}
    IN  [anchored |-> {SubSeq(cleaned, CityHintAt(cleaned, i),
                              CapPhraseEnd(cleaned, CityHintAt(cleaned, i)) - 1) : i \in at},
         phrases |-> FindAllProper(cleaned, 1)]

DestinationCues_table == [t \in ExtractTexts |-> DestinationCues(t)]

\* C23: the destination of extract_entities is the capitalized phrase that
\* follows in, to, for or at, whatever other capitalized phrases stand before
\* or after it; without such a phrase it is the last capitalized phrase of the
\* cleaned text; without any it is the destination of the session context.
C23_DestinationSelection ==
    call.op = "extract_entities" =>
        LET cues == DestinationCues_table[call.text] IN
        IF cues.anchored # {}
        THEN call.entities.destination \in cues.anchored
        ELSE IF cues.phrases # <<>>
        THEN call.entities.destination = cues.phrases[Len(cues.phrases)]
        ELSE call.entities.destination = Get(context, "destination")

\* two capitalized phrases and no preposition before either: the last one
C23_Witness ==
    /\ call.op = "extract_entities"
    /\ call.text = "Tokyo vs London which is better"
    /\ DestinationCues_table[call.text].anchored = {}
    /\ Truthy("destination", Get(context, "destination"))
    /\ call.entities.destination = "London"

\* C24: for every text the currency that parse returns is null or one of
\* the three-letter codes USD, EUR and GBP, whether the text gives the
\* currency as a sign, as a code or as a word.
C24_CurrencyIsCode ==
    call.op = "parse" => call.result.currency \in {None, "USD", "EUR", "GBP"}

\* C25: the trip intent handed to the responders has the accommodation type
\* hotel when no type was supplied and the vibe any when no vibe was
\* supplied; the type and the vibe of a built trip intent are never null.
C25_TripIntentDefaults ==
    call.op = "trip_intent" =>
        LET acc == call.context.trip_intent.accommodation IN
        /\ acc.type # None
        /\ acc.vibe # None
        /\ call.type = None => acc.type = "hotel"
        /\ call.vibe = None => acc.vibe = "any"

\* C26: the error counter is a one-way latch: it never exceeds
\* max_consecutive_errors, and once it has reached that value no turn and no
\* reset lowers it and no turn consults the model again, so every later
\* answer of a merged turn is the template, whatever the model would say.
C26_ErrorLatch ==
    /\ [](consecutive_errors <= max_consecutive_errors)
    /\ [][consecutive_errors = max_consecutive_errors
            => /\ consecutive_errors' = max_consecutive_errors
               /\ (call'.op = "generate_response" /\ ~call'.clarification)
                     => call'.answer = _get_intelligent_response(call'.query_type)]_vars

\* latched, then reset, then a merged turn the model would have answered
C26_Witness ==
    /\ call.op = "generate_response"
    /\ ~call.clarification
    /\ call.errors = max_consecutive_errors
    /\ consecutive_errors = max_consecutive_errors
    /\ call.outcome = "text"
    /\ Len(history) = 1
    /\ call.answer = _get_intelligent_response(call.query_type)

\* C27: once the session context holds a non-empty destination, it keeps one
\* until the reset, and no turn of any intent taken in the meantime receives
\* a clarification prompt: the destination is refilled from the context
\* before the clarification check.
C27_NoClarificationAfterDestination ==
    [][Truthy("destination", Get(context, "destination"))
        => /\ call'.op = "generate_response"
                => /\ ~call'.clarification
                   /\ Truthy("destination", call'.entities.destination)
                   /\ Truthy("destination", Get(context', "destination"))
           /\ call'.op = "reset" => context' = EmptyDict]_vars

\* a destination request without interests or place, answered rather than
\* held because an earlier turn stored Paris
C27_Witness ==
    /\ call.op = "generate_response"
    /\ call.text = "where should I go,"
    /\ call.query_type = "destination"
    /\ ~call.clarification
    /\ call.entities.interests = <<>>
    /\ call.entities.destination = "Paris"
    /\ Len(history) = 2

\* C28: after any sequence of add_to_history calls conversation_history
\* holds at most 10 messages, the most recent ones in arrival order;
\* get_recent_history renders at most the last 5 of them; and a merged turn
\* appends the user message immediately before the assistant answer.
C28_HistoryWindow ==
    call.op \in {"add_to_history", "generate_response"} =>
        LET n == Len(call.arrived)
            kept == Len(conversation_history)
            shown == IF kept < 5 THEN kept ELSE 5
        IN  /\ kept = (IF n < 10 THEN n ELSE 10)
            /\ \A i \in 1..kept : conversation_history[i] = call.arrived[n - kept + i]
            /\ call.recent =
                  "Conversation so far (use it to stay consistent and avoid repeating yourself):\n"
                  \o JoinLines(SubSeq(call.arrived, n - shown + 1, n)) \o "\n"
            /\ (call.op = "generate_response" /\ ~call.clarification)
                  => /\ kept >= 2
                     /\ conversation_history[kept - 1] = [role |-> "user", content |-> call.text]
                     /\ conversation_history[kept] = [role |-> "assistant", content |-> call.answer]

\* the eleventh message is the answer of a merged turn: the first message
\* handed over is gone and the turn's two messages are the last two
C28_Witness ==
    /\ call.op = "generate_response"
    /\ ~call.clarification
    /\ Len(call.arrived) = 11
    /\ Len(conversation_history) = 10
    /\ call.arrived[1].role = "assistant"
    /\ conversation_history[1] = [role |-> "user", content |-> "hi"]
    /\ conversation_history[10].content = call.answer

\* over the texts handed to extract_entities: a text without a digit has no
\* budget, and the budget of a text with a digit is a piece of the text that
\* starts at or before its first number and covers it
DigitTextsHaveBudget ==
    \A t \in ExtractTexts :
        LET digits == {i \in 1..Len(t) : InClass(t, i, DigitSet)}
            d == Least(digits)
            e == RunEnd(t, d, DigitSet)
            b == UtteranceEntities_table[t].budget
        IN  IF digits = {} THEN b = None
            ELSE /\ b # None
                 /\ \E i \in 1..d : /\ LitAt(t, b, i)
                                    /\ i + Len(b) >= e

\* C29: the budget is taken from the first number of the text whether or not
\* a money cue accompanies it: every utterance holding a digit yields a
\* budget, a piece of the text that covers its first number; an utterance
\* whose only number counts days yields both a duration and a budget, and the
\* merge of that turn stores the number as the budget of the session.
C29_BudgetFromAnyNumber ==
    /\ DigitTextsHaveBudget
    /\ (call.op = "generate_response" /\ call.text = "for 5 days")
          => /\ call.entities.duration = "5 days"
             /\ call.entities.budget = " 5 "
             /\ ~call.clarification => /\ context.duration = "5 days"
                                       /\ context.budget = " 5 "

\* "for 5 days" merged into a session that held a place and no budget
C29_Witness ==
    /\ call.op = "generate_response"
    /\ call.text = "for 5 days"
    /\ ~call.clarification
    /\ Len(history) = 2
    /\ "budget" \notin DOMAIN history[1].entities \/ history[1].entities.budget = None
    /\ Get(context, "destination") = "Paris"
    /\ context.budget = " 5 "

\* C30: the weather check shadows the best-time keyword "season to go": a
\* text containing "season" that fails the itinerary composite check is
\* classified weather, so classify_query never returns best_time for a text
\* containing "season".
C30_SeasonIsWeather ==
    (call.op = "classify_query" /\ In("season", lower(call.text)))
        => /\ call.result # "best_time"
           /\ call.result = (IF ItineraryCue(lower(call.text)) THEN "itinerary" ELSE "weather")

\* a text with the best-time keyword "season to go" classified weather
C30_Witness ==
    /\ call.op = "classify_query"
    /\ In("season to go", lower(call.text))
    /\ In("best time", lower(call.text))
    /\ ~ItineraryCue(lower(call.text))
    /\ call.result = "weather"

====
